---- MODULE Spec2Model ----
(***************************************************************************)
(* The user-secret management router (GET / , POST /create,               *)
(* PUT /update/:id, DELETE /:secretId) together with the userSecrets      *)
(* service and repository it calls.  The route handlers and their request *)
(* schemas are translated from the router source; the service operations  *)
(* the handlers call (getAllUserSecrets, createUserSecret,                *)
(* updateUserSecret, deleteUserSecretById) are not part of the available  *)
(* source and follow sections 4.2, 4.3 and 9 of the specification.  The   *)
(* validate middleware is translated from validateRequest.ts and placed   *)
(* before the create and update handlers, as the validation step of the   *)
(* control flow of section 2.                                             *)
(***************************************************************************)
EXTENDS Integers, Sequences, FiniteSets, TLC

VARIABLES store, now, inflight, last, delOk, mw

vars == <<store, now, inflight, last, delOk, mw>>

(* ------------------------------ bounds -------------------------------- *)

\* rows the table may hold
MaxSecrets == 2
\* last value of the millisecond clock
MaxTime == 1
\* rows the table may hold when requests carry every body of Bodies
MaxPayloadSecrets == 1
\* DELETE requests that may be between their two repository steps at once
MaxDeleters == 2
\* errors the validation result of a request may hold
MaxErrors == 1

(* ------------------------- program constants ------------------------- *)

\* offset: z.coerce.number().min(0).max(100).default(0)
MinOffset == 0
MaxOffset == 100
DefaultOffset == 0
\* limit: z.coerce.number().min(1).max(100).default(25)
MinLimit == 1
MaxLimit == 100
DefaultLimit == 25

(* ------------------------------ values -------------------------------- *)

\* JavaScript values: undefined, null, a string, a Date
Undef == [k |-> "undefined"]
Null == [k |-> "null"]
Str(s) == [k |-> "string", v |-> s]
Date(t) == [k |-> "date", t |-> t]

\* z.enum(["WEB_LOGIN", "CREDIT_CARD", "SECURE_NOTE"])
CredentialTypes == {"WEB_LOGIN", "CREDIT_CARD", "SECURE_NOTE"}

\* the payload columns of a row, and the request key each is read from
PayloadFields ==
    {"username", "password", "card_number", "expiry_date", "cvv", "title", "content"}

\* the columns an update may write: type and the payload columns
DataFields == PayloadFields \cup {"type"}

\* req.permission: the Actor Context the auth plugin attaches to a request
Actors == {[id |-> "u1", orgId |-> "o1"], [id |-> "u2", orgId |-> "o2"]}

\* new Date(s) for the date strings requests carry: days since the epoch
NewDate(s) ==
    CASE s = "2030-01-01" -> Date(21915)
      [] s = "2031-01-01" -> Date(22280)

\* JavaScript truthiness of an optional string: undefined and "" are falsy
Truthy(x) == x # Undef /\ x # Null /\ x # Str("")

\* x || null
OrNull(x) == IF Truthy(x) THEN x ELSE Null

(* ------------------------------ requests ------------------------------ *)

\* a request body with the keys of the POST /create and PUT /update schemas
MkBody(ct, un, pw, cn, ed, cv, ti, co, org, usr) ==
    [credentialType |-> ct, username |-> un, password |-> pw, cardNumber |-> cn,
     expiryDate |-> ed, cvv |-> cv, title |-> ti, content |-> co,
     organizationId |-> org, userId |-> usr]

\* the payload part of the bodies requests are drawn from: one login, one login
\* carrying a card field, one card, one note with an empty content, a partial
\* body with a password only, a body with an unknown type, a body with an empty
\* expiry date only
Payloads(org, usr) ==
    { MkBody(Str("WEB_LOGIN"), Str("a"), Str("b"), Undef, Undef, Undef, Undef, Undef, org, usr),
      MkBody(Str("WEB_LOGIN"), Str("a"), Undef, Undef, Undef, Str("1"), Undef, Undef, org, usr),
      MkBody(Str("CREDIT_CARD"), Undef, Undef, Str("c"), Str("2030-01-01"), Str("1"), Undef, Undef, org, usr),
      MkBody(Str("SECURE_NOTE"), Undef, Undef, Undef, Undef, Undef, Str("t"), Str(""), org, usr),
      MkBody(Undef, Undef, Str("c"), Undef, Undef, Undef, Undef, Undef, org, usr),
      MkBody(Str("OTHER"), Str("a"), Undef, Undef, Undef, Undef, Undef, Undef, org, usr),
      MkBody(Undef, Undef, Undef, Undef, Str(""), Undef, Undef, Undef, org, usr) }

\* the bodies requests are drawn from: each payload with the ids of either
\* actor, and one body that lacks organizationId
Bodies ==
    UNION { Payloads(Str(a.orgId), Str(a.id)) : a \in Actors }
      \cup { MkBody(Str("WEB_LOGIN"), Str("a"), Str("b"), Undef, Undef, Undef, Undef, Undef,
                    Undef, Str("u1")) }

\* the bodies of the requests that exercise scoping, deletion and listing: a
\* login with the ids of either actor, and a partial body with a password only
ScopeBodies ==
    { MkBody(Str("WEB_LOGIN"), Str("a"), Str("b"), Undef, Undef, Undef, Undef, Undef,
             Str(a.orgId), Str(a.id)) : a \in Actors }
      \cup { MkBody(Undef, Undef, Str("c"), Undef, Undef, Undef, Undef, Undef,
                    Str("o1"), Str("u1")) }

\* the ids requests name: every id a row can get (an id names no row until
\* that row is created)
ReqIds == 1 .. MaxSecrets

\* the query strings GET / is called with: offset and limit as sent
Queries ==
    { [offset |-> Undef, limit |-> Undef],
      [offset |-> Str("0"), limit |-> Str("1")],
      [offset |-> Str("0"), limit |-> Str("2")],
      [offset |-> Str("1"), limit |-> Str("1")],
      [offset |-> Str("2"), limit |-> Str("1")],
      [offset |-> Str("0"), limit |-> Str("0")],
      [offset |-> Str("101"), limit |-> Str("1")] }

\* the query strings at and around the limits of the querystring schema: the
\* empty string, a string that is no number, and the values next to each limit
BoundaryQueries ==
    [offset : {Undef} \cup { Str(x) : x \in {"-1", "0", "100", "101", "", "x"} },
     limit : {Undef} \cup { Str(x) : x \in {"0", "1", "100", "101", "x"} }]

\* Number(s) is NaN for the query strings used
IsNaN(s) == s = "x"

\* Number(s) for the query strings used (Number("") is 0)
NumberOf(s) ==
    CASE s = "0" -> 0 [] s = "1" -> 1 [] s = "2" -> 2 [] s = "101" -> 101
      [] s = "-1" -> 0 - 1 [] s = "100" -> 100 [] s = "" -> 0

(* --------------------------- request schemas -------------------------- *)

\* the querystring schema clamping an out-of-range number into [lo, hi]
CoerceQuery_Clamp(x, lo, hi, d) ==
    IF x = Undef THEN [ok |-> TRUE, n |-> d]
    ELSE IF IsNaN(x.v) THEN [ok |-> FALSE, n |-> d]
    ELSE [ok |-> TRUE,
          n |-> IF NumberOf(x.v) < lo THEN lo
                ELSE IF NumberOf(x.v) > hi THEN hi ELSE NumberOf(x.v)]

\* querystring of GET /: z.coerce.number().min(lo).max(hi).default(d); the
\* default stands in for an absent key, NaN is no number
CoerceQuery(x, lo, hi, d) ==
    IF x = Undef THEN [ok |-> TRUE, n |-> d]
    ELSE IF IsNaN(x.v) THEN [ok |-> FALSE, n |-> d]
    ELSE [ok |-> NumberOf(x.v) >= lo /\ NumberOf(x.v) <= hi, n |-> NumberOf(x.v)]

\* offset: min(0).max(100).default(0)
ParseOffset(q) == CoerceQuery(q.offset, MinOffset, MaxOffset, DefaultOffset)

\* limit: min(1).max(100).default(25)
ParseLimit(q) == CoerceQuery(q.limit, MinLimit, MaxLimit, DefaultLimit)

\* the create schema with credentialType: z.string() in place of the enum
CreateBodyOk_AnyType(body) ==
    /\ body.credentialType # Undef
    /\ body.organizationId # Undef
    /\ body.userId # Undef

\* body of POST /create: credentialType is required and of the enum,
\* organizationId and userId are required strings, the rest optional strings
CreateBodyOk(body) ==
    /\ body.credentialType \in { Str(t) : t \in CredentialTypes }
    /\ body.organizationId # Undef
    /\ body.userId # Undef

\* body of PUT /update/:id: as for create, with credentialType optional
UpdateBodyOk(body) ==
    /\ body.credentialType \in ({Undef} \cup { Str(t) : t \in CredentialTypes })
    /\ body.organizationId # Undef
    /\ body.userId # Undef

(* ------------------------------ repository ---------------------------- *)

\* the columns of a user-secret row
RowFields ==
    {"id", "user_id", "organization_id", "type", "createdAt", "updatedAt", "deletedAt"}
        \cup PayloadFields

\* the row with id i (ids are unique in the table), as a sequence of 0 or 1 rows
RowsWithId(i) == SelectSeq(store, LAMBDA r : r.id = i)

\* a secret is active iff deletedAt is null
IsActive(r) == r.deletedAt = Null

\* findById(id, organizationScope): the active row of that id in that scope
FindById(i, org) ==
    SelectSeq(store, LAMBDA r : r.id = i /\ r.organization_id = Str(org) /\ IsActive(r))

\* insert(entity): the columns the entity does not carry take the column default
InsertRow(entity) ==
    [f \in RowFields |-> IF f \in DOMAIN entity THEN entity[f] ELSE Null]

\* updatePartial(id, fieldsToChange): only the fields present (not undefined) are written
ApplyPartial(r, data) ==
    [f \in DOMAIN r |-> IF f \in DOMAIN data /\ data[f] # Undef THEN data[f] ELSE r[f]]

(* ------------------------------- service ------------------------------ *)

\* getAllUserSecrets: the active secrets of the actor's organization by creation
\* time (rows are inserted in creation order), the page, and the unpaginated count
getAllUserSecrets(actorOrgId, offset, limit) ==
    LET m == SelectSeq(store, LAMBDA r : r.organization_id = Str(actorOrgId) /\ IsActive(r))
        hi == IF offset + limit < Len(m) THEN offset + limit ELSE Len(m)
    IN  [secrets |-> SubSeq(m, offset + 1, hi), totalCount |-> Len(m)]

\* updateUserSecret({id, updateData}) finds an active secret of that id; the
\* call carries no Actor Context, so there is no organization to scope it by
updateUserSecretFinds(i) == SelectSeq(store, LAMBDA r : r.id = i /\ IsActive(r)) # <<>>

\* updateUserSecret({id, updateData}): the partial update of that row
updateUserSecret(i, data) ==
    [n \in 1 .. Len(store) |->
        IF store[n].id = i THEN ApplyPartial(store[n], data) ELSE store[n]]

\* deleteUserSecretById, second step: the row with deletedAt := now
MarkDeleted(r) == [r EXCEPT !.deletedAt = Date(now)]

\* a delete that removes the row instead of marking it
deleteUserSecretById_Hard(i) == SelectSeq(store, LAMBDA r : r.id # i)

\* the table after the second step of deleteUserSecretById on row i
deleteUserSecretById(i) ==
    [n \in 1 .. Len(store) |->
        IF store[n].id = i THEN MarkDeleted(store[n]) ELSE store[n]]

(* ------------------------------ handlers ------------------------------ *)

\* uuidv4(): an id no row has (rows are never removed, so none ever had it)
uuidv4 == Len(store) + 1

\* POST /create: the newSecret object, with the two readings of the clock
NewSecret(body, id, t1, t2) ==
    [id |-> id,
     user_id |-> body.userId,
     organization_id |-> body.organizationId,
     type |-> body.credentialType,
     username |-> OrNull(body.username),
     password |-> OrNull(body.password),
     card_number |-> OrNull(body.cardNumber),
     expiry_date |-> IF Truthy(body.expiryDate) THEN NewDate(body.expiryDate.v) ELSE Null,
     cvv |-> OrNull(body.cvv),
     title |-> OrNull(body.title),
     content |-> OrNull(body.content),
     createdAt |-> Date(t1),
     updatedAt |-> Date(t2)]

\* the data object built as newSecret is, with || null on every optional field
UpdateData_Coalesce(body, t) ==
    [type |-> body.credentialType,
     username |-> OrNull(body.username),
     password |-> OrNull(body.password),
     card_number |-> OrNull(body.cardNumber),
     expiry_date |-> IF Truthy(body.expiryDate) THEN NewDate(body.expiryDate.v) ELSE Null,
     cvv |-> OrNull(body.cvv),
     title |-> OrNull(body.title),
     content |-> OrNull(body.content),
     updatedAt |-> Date(t)]

\* the data object carrying the ownership keys of the body as well
UpdateData_WithOwner(body, t) ==
    [type |-> body.credentialType,
     username |-> body.username,
     password |-> body.password,
     card_number |-> body.cardNumber,
     expiry_date |-> IF Truthy(body.expiryDate) THEN NewDate(body.expiryDate.v) ELSE Undef,
     cvv |-> body.cvv,
     title |-> body.title,
     content |-> body.content,
     user_id |-> body.userId,
     organization_id |-> body.organizationId,
     updatedAt |-> Date(t)]

\* the data object without updatedAt: new Date()
UpdateData_NoStamp(body, t) ==
    [type |-> body.credentialType,
     username |-> body.username,
     password |-> body.password,
     card_number |-> body.cardNumber,
     expiry_date |-> IF Truthy(body.expiryDate) THEN NewDate(body.expiryDate.v) ELSE Undef,
     cvv |-> body.cvv,
     title |-> body.title,
     content |-> body.content,
     updatedAt |-> Undef]

\* PUT /update/:id: the data object; req.body.expiry_date is no key of the
\* schema, so it is undefined
UpdateData(body, t) ==
    [type |-> body.credentialType,
     username |-> body.username,
     password |-> body.password,
     card_number |-> body.cardNumber,
     expiry_date |-> IF Truthy(body.expiryDate) THEN NewDate(body.expiryDate.v) ELSE Undef,
     cvv |-> body.cvv,
     title |-> body.title,
     content |-> body.content,
     updatedAt |-> Date(t)]

\* the DELETE handler with its test inverted: if (deletedSecret) answers 404
DeleteResponse_Inverted(deletedSecret) ==
    IF deletedSecret # <<>>
    THEN [status |-> "404", deleted |-> <<>>]
    ELSE [status |-> "200", deleted |-> deletedSecret]

\* the DELETE handler without its test of deletedSecret: 200 for null too
DeleteResponse_NoCheck(deletedSecret) ==
    [status |-> "200", deleted |-> deletedSecret]

\* DELETE /:secretId: the response for what deleteUserSecretById returned
\* (a sequence of 0 rows for null, of 1 row for the deleted secret)
DeleteResponse(deletedSecret) ==
    IF deletedSecret = <<>>
    THEN [status |-> "404", deleted |-> <<>>]
    ELSE [status |-> "200", deleted |-> deletedSecret]

\* the GET handler answering the length of the page as the count
ListResponse_PageCount(actor, offset, limit) ==
    LET r == getAllUserSecrets(actor.orgId, offset, limit)
    IN  [secrets |-> r.secrets, totalCount |-> Len(r.secrets)]

\* GET /: the response for a validated query
ListResponse(actor, offset, limit) ==
    LET r == getAllUserSecrets(actor.orgId, offset, limit)
    IN  [secrets |-> r.secrets, totalCount |-> r.totalCount]

(* ------------------------------- actions ------------------------------ *)

\* the record of the last response sent: the request and its outcome
Response(op, actor, id, body, query, status, deleted, secrets, totalCount) ==
    [op |-> op, actor |-> actor, id |-> id, body |-> body, query |-> query,
     status |-> status, deleted |-> deleted, secrets |-> secrets,
     totalCount |-> totalCount]

\* no request has been answered yet
NoResponse == Response("none", Undef, 0, Undef, Undef, "none", <<>>, <<>>, 0)

\* a slot of inflight that holds no DELETE request
Idle == [pc |-> "idle", actor |-> Undef, id |-> 0]

\* the slot a new DELETE request takes: the lowest idle one
FreeSlot(s) ==
    /\ inflight[s] = Idle
    /\ \A u \in 1 .. (s - 1) : inflight[u] # Idle

\* the number of 200 responses of DELETE on id i so far: 0, 1, or 2 for more
CountOk(i, status) ==
    IF status = "200"
    THEN [delOk EXCEPT ![i] = IF @ < 2 THEN @ + 1 ELSE @]
    ELSE delOk

\* no request is in the middleware pipeline
MwIdle ==
    [pc |-> "idle", route |-> "none", actor |-> Undef, id |-> 0, body |-> Undef,
     throws |-> FALSE, errors |-> <<>>, nexts |-> <<>>]

Init ==
    /\ store = <<>>
    /\ now = 0
    /\ inflight = [s \in 1 .. MaxDeleters |-> Idle]
    /\ last = NoResponse
    /\ delOk = [i \in ReqIds |-> 0]
    /\ mw = MwIdle

\* the clock advances by a millisecond
Tick ==
    /\ now < MaxTime
    /\ now' = now + 1
    /\ UNCHANGED <<store, inflight, last, delOk>>

\* GET /: the query is validated, then the handler calls getAllUserSecrets
List(actor, q) ==
    /\ IF ~(ParseOffset(q).ok /\ ParseLimit(q).ok)
       THEN last' = Response("list", actor, 0, Undef, q, "ValidationError", <<>>, <<>>, 0)
       ELSE LET r == ListResponse(actor, ParseOffset(q).n, ParseLimit(q).n)
            IN  last' = Response("list", actor, 0, Undef, q, "200", <<>>,
                                 r.secrets, r.totalCount)
    /\ UNCHANGED <<store, now, inflight, delOk>>

\* POST /create: the body is validated, then the handler builds newSecret,
\* reading the clock twice, and calls createUserSecret, which inserts it
Create(actor, body, cap) ==
    /\ IF ~CreateBodyOk(body)
       THEN /\ last' = Response("create", actor, 0, body, Undef, "ValidationError",
                                <<>>, <<>>, 0)
            /\ UNCHANGED <<store, now>>
       ELSE /\ Len(store) < cap
            /\ \E t2 \in {now, now + 1} :
                 /\ t2 <= MaxTime
                 /\ store' = Append(store, InsertRow(NewSecret(body, uuidv4, now, t2)))
                 /\ now' = t2
            /\ last' = Response("create", actor, uuidv4, body, Undef, "200",
                                <<>>, <<>>, 0)
    /\ UNCHANGED <<inflight, delOk>>

\* PUT /update/:id: the body is validated, then the handler builds data and
\* calls updateUserSecret, which throws NotFoundError or writes the row
Update(actor, i, body) ==
    /\ IF ~UpdateBodyOk(body)
       THEN /\ last' = Response("update", actor, i, body, Undef, "ValidationError",
                                <<>>, <<>>, 0)
            /\ UNCHANGED store
       ELSE IF ~updateUserSecretFinds(i)
       THEN /\ last' = Response("update", actor, i, body, Undef, "NotFoundError",
                                <<>>, <<>>, 0)
            /\ UNCHANGED store
       ELSE /\ store' = updateUserSecret(i, UpdateData(body, now))
            /\ last' = Response("update", actor, i, body, Undef, "200", <<>>, <<>>, 0)
    /\ UNCHANGED <<now, inflight, delOk>>

\* DELETE /:secretId, first step of deleteUserSecretById: the existence check
\* in the actor's organization; null is answered at once
DeleteLookup(s, actor, i) ==
    /\ FreeSlot(s)
    /\ IF FindById(i, actor.orgId) = <<>>
       THEN LET r == DeleteResponse(<<>>)
            IN  /\ last' = Response("delete", actor, i, Undef, Undef, r.status,
                                    r.deleted, <<>>, 0)
                /\ delOk' = CountOk(i, r.status)
                /\ UNCHANGED inflight
       ELSE /\ inflight' = [inflight EXCEPT ![s] = [pc |-> "found", actor |-> actor, id |-> i]]
            /\ UNCHANGED <<last, delOk>>
    /\ UNCHANGED <<store, now>>

\* DELETE /:secretId, second step of deleteUserSecretById: the row is marked
\* deleted and returned, and the handler answers
DeleteMark(s) ==
    /\ inflight[s].pc = "found"
    /\ LET i == inflight[s].id
           r == DeleteResponse(<<MarkDeleted(RowsWithId(i)[1])>>)
       IN  /\ store' = deleteUserSecretById(i)
           /\ last' = Response("delete", inflight[s].actor, i, Undef, Undef, r.status,
                               r.deleted, <<>>, 0)
           /\ delOk' = CountOk(i, r.status)
    /\ inflight' = [inflight EXCEPT ![s] = Idle]
    /\ UNCHANGED now

Next ==
    \/ Tick /\ UNCHANGED mw
    \/ \E a \in Actors, q \in Queries : List(a, q) /\ UNCHANGED mw
    \/ \E a \in Actors, b \in ScopeBodies : Create(a, b, MaxSecrets) /\ UNCHANGED mw
    \/ \E a \in Actors, i \in ReqIds, b \in ScopeBodies : Update(a, i, b) /\ UNCHANGED mw
    \/ \E s \in 1 .. MaxDeleters, a \in Actors, i \in ReqIds :
          DeleteLookup(s, a, i) /\ UNCHANGED mw
    \/ \E s \in 1 .. MaxDeleters : DeleteMark(s) /\ UNCHANGED mw

Spec == Init /\ [][Next]_vars

\* the create and update requests alone, over every body of Bodies
NextPayload ==
    \/ Tick /\ UNCHANGED mw
    \/ \E a \in Actors, b \in Bodies : Create(a, b, MaxPayloadSecrets) /\ UNCHANGED mw
    \/ \E a \in Actors, i \in ReqIds, b \in Bodies : Update(a, i, b) /\ UNCHANGED mw

SpecPayload == Init /\ [][NextPayload]_vars

\* GET / on the query strings around the limits of its schema
NextList ==
    \/ Tick /\ UNCHANGED mw
    \/ \E a \in Actors, b \in ScopeBodies : Create(a, b, MaxPayloadSecrets) /\ UNCHANGED mw
    \/ \E a \in Actors, q \in BoundaryQueries : List(a, q) /\ UNCHANGED mw

SpecList == Init /\ [][NextList]_vars

(* ----------------------- the validate middleware ---------------------- *)

\* validationResult(req): it throws, or it is a list of errors
ValidationResults ==
    { [throws |-> TRUE, errors |-> <<>>] }
      \cup { [throws |-> FALSE, errors |-> [k \in 1 .. n |-> "invalid"]] : n \in 0 .. MaxErrors }

\* errors.isEmpty()
isEmpty(errors) == errors = <<>>

\* validate with the test of the errors inverted: if (errors.isEmpty())
validate_Inverted(vr) ==
    IF vr.throws THEN <<"UnauthorizedRequestError">>
    ELSE IF isEmpty(vr.errors) THEN <<"ValidationError">>
    ELSE <<"undefined">>

\* validate without the return before next(ValidationError(...))
validate_NoReturn(vr) ==
    IF vr.throws THEN <<"UnauthorizedRequestError">>
    ELSE IF ~isEmpty(vr.errors) THEN <<"ValidationError", "undefined">>
    ELSE <<"undefined">>

\* validate(req, res, next): the arguments of the calls of next it makes, in
\* order ("undefined" for next() without argument)
validate(vr) ==
    IF vr.throws THEN <<"UnauthorizedRequestError">>
    ELSE IF ~isEmpty(vr.errors) THEN <<"ValidationError">>
    ELSE <<"undefined">>

\* a create or update request arrives with the validation result its
\* validation chains left on it (a create is taken while a row can be added)
Receive(a, route, i, b, vr) ==
    /\ mw.pc = "idle"
    /\ (route = "create" /\ CreateBodyOk(b)) => Len(store) < MaxPayloadSecrets
    /\ mw' = [pc |-> "validate", route |-> route, actor |-> a, id |-> i, body |-> b,
              throws |-> vr.throws, errors |-> vr.errors, nexts |-> <<>>]
    /\ UNCHANGED <<store, now, inflight, last, delOk>>

\* validate runs; next() passes the request on to the route handler, next(err)
\* to the error handler
Validate ==
    /\ mw.pc = "validate"
    /\ LET calls == validate([throws |-> mw.throws, errors |-> mw.errors])
       IN  mw' = [mw EXCEPT !.nexts = calls,
                            !.pc = IF \E n \in 1 .. Len(calls) : calls[n] = "undefined"
                                   THEN "handler" ELSE "error"]
    /\ UNCHANGED <<store, now, inflight, last, delOk>>

\* the route handler runs on the request validate passed on
RunHandler ==
    /\ mw.pc = "handler"
    /\ \/ mw.route = "create" /\ Create(mw.actor, mw.body, MaxPayloadSecrets)
       \/ mw.route = "update" /\ Update(mw.actor, mw.id, mw.body)
    /\ mw' = MwIdle

\* the error handler answers the error validate passed to next
RunErrorHandler ==
    /\ mw.pc = "error"
    /\ last' = Response(mw.route, mw.actor, mw.id, mw.body, Undef, mw.nexts[1],
                        <<>>, <<>>, 0)
    /\ mw' = MwIdle
    /\ UNCHANGED <<store, now, inflight, delOk>>

NextValidate ==
    \/ Tick /\ UNCHANGED mw
    \/ \E a \in Actors, b \in ScopeBodies, vr \in ValidationResults :
          Receive(a, "create", 0, b, vr)
    \/ \E a \in Actors, i \in ReqIds, b \in ScopeBodies, vr \in ValidationResults :
          Receive(a, "update", i, b, vr)
    \/ Validate
    \/ RunHandler
    \/ RunErrorHandler

SpecValidate == Init /\ [][NextValidate]_vars

(* ------------------------------- claims ------------------------------- *)

\* row i is stored
Exists(i) == RowsWithId(i) # <<>>

\* the stored row i
Row(i) == RowsWithId(i)[1]

\* row i is stored and belongs to another organization than the actor's
Foreign(a, i) == Exists(i) /\ Row(i).organization_id # Str(a.orgId)

\* the ids of a sequence of rows
IdsOf(rows) == { rows[n].id : n \in 1 .. Len(rows) }

\* the pagination windows that differ on a table of at most MaxSecrets rows,
\* and the largest ones the query schema admits
Offsets == (MinOffset .. (MaxSecrets + 1)) \cup {MaxOffset}
Limits == (MinLimit .. (MaxSecrets + 1)) \cup {MaxLimit}

\* the step is the whole of a request of the kind op, the one last' records
IsList == last'.op = "list" /\ List(last'.actor, last'.query)
IsCreate(cap) == last'.op = "create" /\ Create(last'.actor, last'.body, cap)
IsUpdate == last'.op = "update" /\ Update(last'.actor, last'.id, last'.body)
IsDeleteLookup ==
    /\ last'.op = "delete"
    /\ \E s \in 1 .. MaxDeleters : DeleteLookup(s, last'.actor, last'.id)
IsDeleteMark(s) ==
    /\ last'.op = "delete"
    /\ DeleteMark(s)

\* C1: an actor of another organization than a secret's never sees it in a
\* listing, gets NotFoundError when updating it and 404 (null) when deleting
\* it, and none of the three changes the stored record.
C1_OrgScoping ==
    [][/\ IsList =>
            /\ \A i \in ReqIds :
                  Foreign(last'.actor, i) => i \notin IdsOf(last'.secrets)
            /\ store' = store
       /\ (IsUpdate /\ UpdateBodyOk(last'.body) /\ Foreign(last'.actor, last'.id)) =>
            last'.status = "NotFoundError" /\ store' = store
       /\ (IsDeleteLookup /\ Foreign(last'.actor, last'.id)) =>
            last'.status = "404" /\ last'.deleted = <<>> /\ store' = store]_vars

\* C2: of the DELETE requests on one secret id, however they interleave, at
\* most one is answered 200 with the deleted entity.
C2_OneDeleteSucceeds == \A i \in ReqIds : delOk[i] <= 1

\* C3: a secret on which a DELETE was answered 200 is in no listing, for any
\* actor and any pagination window, in every later state.
C3_SoftDeleteExclusion ==
    \A i \in ReqIds :
        delOk[i] >= 1 =>
          /\ \A a \in Actors, off \in Offsets, lim \in Limits :
                i \notin IdsOf(ListResponse(a, off, lim).secrets)
          /\ last.op = "list" => i \notin IdsOf(last.secrets)

\* a listing for the organization of a deleted secret was answered, and it
\* holds another secret of that organization
C3_Witness ==
    /\ last.op = "list"
    /\ last.status = "200"
    /\ Len(last.secrets) >= 1
    /\ \E i \in ReqIds :
          /\ delOk[i] >= 1
          /\ Exists(i)
          /\ Row(i).organization_id = Str(last.actor.orgId)

\* the request key a column is written from
KeyOf(col) ==
    CASE col = "type" -> "credentialType"
      [] col = "card_number" -> "cardNumber"
      [] col = "expiry_date" -> "expiryDate"
      [] OTHER -> col

\* C4: an update answered 200 leaves every column whose key the body omits
\* (type and the seven payload columns) as it was stored before.
C4_OmittedFieldsPreserved ==
    [][(IsUpdate /\ last'.status = "200") =>
          \A i \in ReqIds, col \in DataFields :
             (i = last'.id /\ last'.body[KeyOf(col)] = Undef) =>
                Row(i)'[col] = Row(i)[col]]_vars

\* the example of the specification: a login {username: "a", password: "b"}
\* updated with {password: "c"} alone
C4_Witness ==
    /\ last.op = "update"
    /\ last.status = "200"
    /\ last.body.username = Undef
    /\ last.body.password = Str("c")
    /\ Exists(last.id)
    /\ Row(last.id).username = Str("a")
    /\ Row(last.id).password = Str("c")

\* C5: an update of an id that names no row, a soft-deleted row or a row of
\* another organization than the actor's is answered NotFoundError and
\* changes no stored record.
C5_UpdateNotFound ==
    [][( /\ IsUpdate
         /\ UpdateBodyOk(last'.body)
         /\ \/ ~Exists(last'.id)
            \/ ~IsActive(Row(last'.id))
            \/ Foreign(last'.actor, last'.id) ) =>
          last'.status = "NotFoundError" /\ store' = store]_vars

\* C6: a DELETE that starts on an id whose secret is not active (absent or
\* already soft-deleted) is answered 404 with no entity and changes no stored
\* record; a DELETE answered 200 leaves the secret soft-deleted and answers
\* that record; and a soft-deleted secret stays soft-deleted.  Hence of a
\* sequential series of DELETEs on one id, only the first on an active secret
\* is answered with an entity.
C6_DoubleDelete ==
    [][/\ (IsDeleteLookup /\ (~Exists(last'.id) \/ ~IsActive(Row(last'.id)))) =>
            last'.status = "404" /\ last'.deleted = <<>> /\ store' = store
       /\ \A s \in 1 .. MaxDeleters, i \in ReqIds :
            (IsDeleteMark(s) /\ inflight[s].id = i /\ last'.status = "200") =>
                /\ ~IsActive(Row(i)')
                /\ last'.deleted = <<Row(i)'>>
       /\ \A i \in ReqIds :
            (Exists(i) /\ ~IsActive(Row(i))) => ~IsActive(Row(i)')]_vars

\* the second DELETE of a secret by an actor of its organization was answered 404
C6_Witness ==
    /\ last.op = "delete"
    /\ last.status = "404"
    /\ Exists(last.id)
    /\ ~IsActive(Row(last.id))
    /\ Row(last.id).organization_id = Str(last.actor.orgId)
    /\ delOk[last.id] = 1

\* the ids of the active secrets of the actor's organization
ActiveIds(a) ==
    { store[n].id : n \in { m \in 1 .. Len(store) :
          IsActive(store[m]) /\ store[m].organization_id = Str(a.orgId) } }

\* C7: with N active secrets in the actor's organization, every listing
\* answers totalCount = N whatever the window; offset 0 with limit N answers
\* exactly those N secrets, and offset N with limit 1 answers none.
C7_CountConsistency ==
    \A a \in Actors :
        LET N == Cardinality(ActiveIds(a))
        IN  /\ \A off \in Offsets, lim \in Limits :
                  ListResponse(a, off, lim).totalCount = N
            /\ N >= 1 =>
                  /\ Len(ListResponse(a, 0, N).secrets) = N
                  /\ IdsOf(ListResponse(a, 0, N).secrets) = ActiveIds(a)
                  /\ \A n \in 1 .. N :
                        ListResponse(a, 0, N).secrets[n]
                            = Row(ListResponse(a, 0, N).secrets[n].id)
            /\ ListResponse(a, N, 1).secrets = <<>>
            /\ (last.op = "list" /\ last.status = "200" /\ last.actor = a) =>
                  last.totalCount = N

\* a listing of one secret was answered with a count of two
C7_Witness ==
    /\ last.op = "list"
    /\ last.status = "200"
    /\ Len(last.secrets) = 1
    /\ last.totalCount = 2

\* C8: a create request whose credentialType is none of WEB_LOGIN,
\* CREDIT_CARD, SECURE_NOTE is answered ValidationError and leaves the stored
\* secrets as they were.
C8_TypeTagClosure ==
    [][( /\ IsCreate(MaxPayloadSecrets)
         /\ last'.body.credentialType \notin { Str(t) : t \in CredentialTypes } ) =>
          last'.status = "ValidationError" /\ store' = store]_vars

\* a create with credentialType OTHER was rejected while a secret is stored
C8_Witness ==
    /\ last.op = "create"
    /\ last.body.credentialType = Str("OTHER")
    /\ last.status = "ValidationError"
    /\ Len(store) = 1

\* C9: a create answered 200 adds exactly one row, whose id no stored row
\* has, with createdAt = updatedAt and deletedAt null, and leaves every row
\* stored before as it was.
C9_CreateAddsOneRow ==
    [][(IsCreate(MaxSecrets) /\ last'.status = "200") =>
          /\ Len(store') = Len(store) + 1
          /\ SubSeq(store', 1, Len(store)) = store
          /\ store'[Len(store')].id \notin IdsOf(store)
          /\ store'[Len(store')].createdAt = store'[Len(store')].updatedAt
          /\ store'[Len(store')].deletedAt = Null]_vars

\* the payload columns that belong to a credential type
RelevantFields(t) ==
    CASE t = "WEB_LOGIN" -> {"username", "password"}
      [] t = "CREDIT_CARD" -> {"card_number", "expiry_date", "cvv"}
      [] t = "SECURE_NOTE" -> {"title", "content"}

\* C10: the row a create stores has null in every payload column that does
\* not belong to its type, whatever other fields the request supplies.
C10_CreateNormalizes ==
    (last.op = "create" /\ last.status = "200") =>
        \A f \in PayloadFields \ RelevantFields(Row(last.id).type.v) :
            Row(last.id)[f] = Null

\* C11: the id, user_id and organization_id of a stored secret are the same
\* after every step, whatever update and delete requests are made, also
\* updates whose body carries another organizationId or userId.
C11_OwnershipImmutable ==
    [][/\ Len(store') >= Len(store)
       /\ \A n \in 1 .. Len(store) :
            /\ store'[n].id = store[n].id
            /\ store'[n].user_id = store[n].user_id
            /\ store'[n].organization_id = store[n].organization_id]_vars

\* an update whose body names another organization and user than the
\* secret's was answered 200
C11_Witness ==
    /\ last.op = "update"
    /\ last.status = "200"
    /\ Exists(last.id)
    /\ last.body.organizationId # Row(last.id).organization_id
    /\ last.body.userId # Row(last.id).user_id

\* C12: a secret once stored is stored in every later state: no step removes
\* a row, and a DELETE answered 200 changes deletedAt alone.
C12_NoHardDelete ==
    [][/\ \A i \in ReqIds : Exists(i) => Exists(i)'
       /\ \A s \in 1 .. MaxDeleters, i \in ReqIds :
            (IsDeleteMark(s) /\ inflight[s].id = i) =>
                /\ Len(store') = Len(store)
                /\ \A f \in RowFields \ {"deletedAt"} : Row(i)'[f] = Row(i)[f]]_vars

\* a DELETE was answered 200 and the secret it names is stored, soft-deleted
C12_Witness ==
    /\ last.op = "delete"
    /\ last.status = "200"
    /\ Exists(last.id)
    /\ ~IsActive(Row(last.id))

\* C13: a request whose validation result holds at least one error is passed
\* to the error handler with a ValidationError and nothing else: its route
\* handler never runs and the store is left as it was; a request whose
\* validation result is empty is passed on to its route handler with no error.
C13_ValidationGate ==
    [][/\ (mw.pc # "idle" /\ ~isEmpty(mw.errors)) =>
            /\ store' = store
            /\ mw'.pc # "handler"
            /\ (mw.pc = "validate" /\ mw'.pc # "validate") =>
                   (mw'.pc = "error" /\ mw'.nexts = <<"ValidationError">>)
            /\ (mw.pc = "error" /\ mw'.pc = "idle") =>
                   (last'.status = "ValidationError" /\ last'.body = mw.body)
       /\ (mw.pc = "validate" /\ mw'.pc # "validate"
             /\ isEmpty(mw.errors) /\ ~mw.throws) =>
            (mw'.pc = "handler" /\ mw'.nexts = <<"undefined">>)
       /\ (mw.pc = "handler" /\ mw'.pc = "idle") =>
            (isEmpty(mw.errors) /\ ~mw.throws)]_vars

\* an update the schema accepts, aimed at an active row, was stopped by the
\* middleware with a ValidationError
C13_Witness ==
    /\ mw.pc = "idle"
    /\ last.op = "update" /\ last.status = "ValidationError"
    /\ UpdateBodyOk(last.body)
    /\ Exists(last.id) /\ IsActive(Row(last.id))
    /\ Row(last.id).password # OrNull(last.body.password)

\* C14: every update answered 200 leaves the row with updatedAt equal to the
\* time of the call, whatever the body supplies; updatedAt does not decrease
\* and createdAt is not changed by the update.
C14_UpdatedAtRefreshed ==
    [][\A i \in ReqIds :
         (IsUpdate /\ last'.status = "200" /\ last'.id = i) =>
            /\ Row(i)'.updatedAt = Date(now)
            /\ Row(i)'.updatedAt.t >= Row(i).updatedAt.t
            /\ Row(i)'.createdAt = Row(i).createdAt]_vars

\* an update whose body supplies no payload field was answered 200 and the
\* row carries a later updatedAt than its createdAt
C14_Witness ==
    /\ last.op = "update" /\ last.status = "200"
    /\ last.body.credentialType = Undef
    /\ \A f \in {"username", "password", "cardNumber", "cvv", "title", "content"} :
         last.body[f] = Undef
    /\ ~Truthy(last.body.expiryDate)
    /\ Row(last.id).updatedAt = Date(now)
    /\ Row(last.id).updatedAt.t > Row(last.id).createdAt.t

\* C15: after an update answered 200 that changes the type of a secret from
\* T1 to T2, every payload field of T1 that is no field of T2 is null in the
\* stored row.
C15_TypeChangeClears ==
    [][\A i \in ReqIds :
         (/\ IsUpdate /\ last'.status = "200" /\ last'.id = i
          /\ Row(i)'.type # Row(i).type) =>
            \A f \in RelevantFields(Row(i).type.v) \ RelevantFields(Row(i)'.type.v) :
                Row(i)'[f] = Null]_vars

\* C16: DELETE answers 404 exactly when deleteUserSecretById returned null,
\* which it does when its lookup finds no active secret of that id in the
\* actor's organization (absent, out of scope or soft-deleted); otherwise it
\* answers 200 with the stored record after the mutation, whose deletedAt is
\* the time of the deletion.
C16_DeleteOutcome ==
    [][/\ \A i \in ReqIds :
            (IsDeleteLookup /\ inflight' = inflight /\ last'.id = i) =>
               /\ FindById(i, last'.actor.orgId) = <<>>
               /\ last'.status = "404" /\ last'.deleted = <<>>
               /\ (~Exists(i) \/ Foreign(last'.actor, i) \/ ~IsActive(Row(i)))
       /\ \A s \in 1 .. MaxDeleters, i \in ReqIds :
            (IsDeleteMark(s) /\ inflight[s].id = i) =>
               /\ last'.status = "200"
               /\ last'.deleted = <<Row(i)'>>
               /\ Row(i)'.deletedAt = Date(now)
               /\ \A f \in RowFields \ {"deletedAt"} : last'.deleted[1][f] = Row(i)[f]
       /\ last'.op = "delete" => (last'.status = "404" <=> last'.deleted = <<>>)]_vars

\* a DELETE was answered 200 with the snapshot of the row as it is stored now,
\* deleted at a later time than it was created
C16_Witness ==
    /\ last.op = "delete" /\ last.status = "200"
    /\ last.deleted = <<Row(last.id)>>
    /\ last.deleted[1].deletedAt = Date(now)
    /\ last.deleted[1].deletedAt.t > last.deleted[1].createdAt.t

\* the number a query string stands for lies in [lo, hi]
InRange(x, lo, hi) == ~IsNaN(x.v) /\ NumberOf(x.v) >= lo /\ NumberOf(x.v) <= hi

\* C17: a list request whose offset is outside [0, 100] or whose limit is
\* outside [1, 100] is rejected without a listing and is never clamped; a
\* request inside the ranges is answered with the listing of exactly its
\* offset and limit, 0 and 25 standing in for the ones omitted, so every call
\* of getAllUserSecrets has 0 <= offset <= 100 and 1 <= limit <= 100.
C17_PaginationBounds ==
    [][IsList =>
         LET q == last'.query
             offOk == q.offset = Undef \/ InRange(q.offset, MinOffset, MaxOffset)
             limOk == q.limit = Undef \/ InRange(q.limit, MinLimit, MaxLimit)
             off == IF q.offset = Undef THEN DefaultOffset ELSE NumberOf(q.offset.v)
             lim == IF q.limit = Undef THEN DefaultLimit ELSE NumberOf(q.limit.v)
         IN  /\ ~(offOk /\ limOk) =>
                  /\ last'.status = "ValidationError"
                  /\ last'.secrets = <<>> /\ last'.totalCount = 0
             /\ (offOk /\ limOk) =>
                  /\ last'.status = "200"
                  /\ off >= MinOffset /\ off <= MaxOffset
                  /\ lim >= MinLimit /\ lim <= MaxLimit
                  /\ last'.secrets = getAllUserSecrets(last'.actor.orgId, off, lim).secrets
                  /\ last'.totalCount
                       = getAllUserSecrets(last'.actor.orgId, off, lim).totalCount]_vars

\* a request one above the limit's maximum, at the offset's maximum, was
\* rejected although the actor has a secret to list
C17_Witness ==
    /\ last.op = "list" /\ last.status = "ValidationError"
    /\ last.query = [offset |-> Str("100"), limit |-> Str("101")]
    /\ ActiveIds(last.actor) # {}

\* C18: the secret a create request stores carries the organization and the
\* id of the actor who made the request, whatever organizationId and userId
\* the body carries.
C18_CreateScoped ==
    [][\A i \in ReqIds :
         (IsCreate(MaxSecrets) /\ last'.status = "200" /\ last'.id = i) =>
            /\ Row(i)'.organization_id = Str(last'.actor.orgId)
            /\ Row(i)'.user_id = Str(last'.actor.id)]_vars

\* C19: a secret whose deletedAt is set keeps that deletedAt and every other
\* field in every later state: no update, create or delete request makes it
\* active again or changes it.
C19_SoftDeleteIrreversible ==
    [][\A i \in ReqIds :
         (Exists(i) /\ ~IsActive(Row(i))) => (Exists(i)' /\ Row(i)' = Row(i))]_vars

\* C20: one invocation of validate calls next exactly once on every path:
\* with no argument when the validation result holds no error, with a
\* ValidationError when it holds one, with an UnauthorizedRequestError when
\* reading it throws; before validate has run next has not been called.
C20_NextOnce ==
    /\ mw.pc \in {"idle", "validate"} => mw.nexts = <<>>
    /\ mw.pc \in {"handler", "error"} =>
         /\ Len(mw.nexts) = 1
         /\ mw.throws => mw.nexts[1] = "UnauthorizedRequestError"
         /\ (~mw.throws /\ mw.errors # <<>>) => mw.nexts[1] = "ValidationError"
         /\ (~mw.throws /\ mw.errors = <<>>) => mw.nexts[1] = "undefined"
         /\ mw.pc = "handler" <=> mw.nexts[1] = "undefined"

\* validate has run on a request whose validation result could not be read
C20_Witness ==
    /\ mw.pc = "error" /\ mw.throws
    /\ mw.nexts = <<"UnauthorizedRequestError">>

====
